---- MODULE Spec2Model ----
(***************************************************************************)
(* Model of the item use case (internal/usecase/service.go): CreateItem,   *)
(* GetItemByID, DeleteItem, GetCategorySummary and UpdateItem running      *)
(* against an ItemRepository.  The repository and the entity package are   *)
(* not among the modelled sources; they are modelled from the              *)
(* specification (storage keyed by id, NewItem validating constructor).    *)
(***************************************************************************)
EXTENDS Integers, Sequences, FiniteSets, TLC

\* ---------------------------------------------------------------- bounds
\* Number of ids the storage hands out (auto-increment, never reused).
MaxId == 1
\* Largest reading of the clock behind time.Now().
MaxTime == 1

\* ---------------------------------------------------------------- constants
\* Length limit of name and brand (len(name) > 100, len(brand) > 100).
MaxLen == 100

VARIABLES
  store,      \* storage rows: a function from the stored ids to items
  nextId,     \* the id storage assigns to the next created item
  now,        \* the clock read by time.Now()
  last,       \* the call that has just returned: operation, arguments,
              \* results, and the storage calls it made ("none": no call
              \* has returned since the caller took the last result)
  pc,         \* per concurrent caller: position inside UpdateItem
  local,      \* per concurrent caller: its id, input, fetched item, result
  written     \* the item passed to the most recent storage Update of a
              \* concurrent caller, and that caller

vars == <<store, nextId, now, last, pc, local, written>>

\* ---------------------------------------------------------------- strings
\* A string is a sequence of runs <<c, n>>: character c repeated n >= 1
\* times, adjacent runs holding different characters.  "W" stands for a
\* character whose UTF-8 encoding is three bytes long; every other
\* character is one byte.
ByteWidth(c) == IF c = "W" THEN 3 ELSE 1

RECURSIVE GoLen(_)
\* Go's len(string): the number of bytes.
GoLen(s) ==
  IF s = <<>> THEN 0 ELSE ByteWidth(Head(s)[1]) * Head(s)[2] + GoLen(Tail(s))

RECURSIVE RuneCount(_)
\* The number of characters of a string.
RuneCount(s) == IF s = <<>> THEN 0 ELSE Head(s)[2] + RuneCount(Tail(s))

IsSpace(c) == c = " "

\* strings.TrimSpace: leading and trailing white space removed.
TrimSpace(s) ==
  LET l == IF s # <<>> /\ IsSpace(Head(s)[1]) THEN Tail(s) ELSE s
  IN IF l # <<>> /\ IsSpace(l[Len(l)][1]) THEN SubSeq(l, 1, Len(l) - 1) ELSE l

Repeat(c, n) == IF n = 0 THEN <<>> ELSE << <<c, n>> >>

SEmpty == <<>>
SBlank == Repeat(" ", 2)
SPadA  == Repeat(" ", 1) \o Repeat("a", 1) \o Repeat(" ", 2)
SPadB  == Repeat(" ", 1) \o Repeat("b", 1)
SMax   == Repeat("a", MaxLen)
SPadMax == Repeat(" ", 1) \o SMax \o Repeat(" ", 1)
SOver  == Repeat("a", MaxLen + 1)
SWide  == Repeat("W", (MaxLen \div 3) + 1)

\* ---------------------------------------------------------------- entity
ErrNil          == "nil"
ErrInvalidInput == "ErrInvalidInput"
ErrItemNotFound == "ErrItemNotFound"
ErrInternal     == "internal"

\* entity.GetValidCategories(): the fixed, ordered category list.
GetValidCategories == <<"watch", "bag", "jewelry", "shoes", "other">>

ValidCategorySet == {GetValidCategories[i] : i \in DOMAIN GetValidCategories}

\* A purchase date "YYYY-MM-DD" as its parsed numbers; wellFormed is FALSE
\* for a string that does not have that layout.
DaysInMonth(y, m) ==
  IF m \in {4, 6, 9, 11} THEN 30
  ELSE IF m = 2
       THEN (IF (y % 4 = 0 /\ y % 100 # 0) \/ y % 400 = 0 THEN 29 ELSE 28)
       ELSE 31

IsValidDate(d) ==
  /\ d.wellFormed
  /\ d.m \in 1..12
  /\ d.d \in 1..DaysInMonth(d.y, d.m)

Date(y, m, d) == [wellFormed |-> TRUE, y |-> y, m |-> m, d |-> d]

GarbageDate == [wellFormed |-> FALSE, y |-> 0, m |-> 0, d |-> 0]

\* The nil *entity.Item.
NilItem ==
  [ID |-> 0, Name |-> <<>>, Category |-> "", Brand |-> <<>>,
   PurchasePrice |-> 0, PurchaseDate |-> GarbageDate,
   CreatedAt |-> 0, UpdatedAt |-> 0]

\* entity.NewItem: trims name and brand, validates every field, and returns
\* the item with CreatedAt = UpdatedAt = now and no id.
NewItem(name, category, brand, price, date, t) ==
  LET n == TrimSpace(name)
      b == TrimSpace(brand)
      bad == \/ n = <<>> \/ GoLen(n) > MaxLen
             \/ b = <<>> \/ GoLen(b) > MaxLen
             \/ category \notin ValidCategorySet
             \/ price < 0
             \/ ~IsValidDate(date)
  IN IF bad
     THEN [err |-> ErrInvalidInput, item |-> NilItem]
     ELSE [err |-> ErrNil,
           item |-> [ID |-> 0, Name |-> n, Category |-> category, Brand |-> b,
                     PurchasePrice |-> price, PurchaseDate |-> date,
                     CreatedAt |-> t, UpdatedAt |-> t]]

\* ---------------------------------------------------------------- storage
\* Every storage call either answers or fails with a generic storage error.

\* ItemRepository.FindByID: the answers the call can give for id.  The
\* item of an "ok" answer is the handler's own copy of the row.
FindByID(id) ==
  {[res |-> "error", item |-> NilItem]}
  \cup {IF id \in DOMAIN store
        THEN [res |-> "ok", item |-> store[id]]
        ELSE [res |-> "notfound", item |-> NilItem]}

\* The answers of a storage call that hands back no item (Create, Update,
\* Delete, GetSummaryByCategory): it went through, or it failed.
StorageAnswers == {"ok", "error"}

\* ItemRepository.Create: the row gets the next id.
RepoCreate(item) ==
  [i \in DOMAIN store \cup {nextId} |->
     IF i = nextId THEN [item EXCEPT !.ID = nextId] ELSE store[i]]

\* ItemRepository.Update: the row with the item's id is replaced as a whole.
RepoUpdate(item) ==
  [i \in DOMAIN store |-> IF i = item.ID THEN item ELSE store[i]]

\* ItemRepository.Delete
RepoDelete(id) == [i \in DOMAIN store \ {id} |-> store[i]]

EmptyCounts == [c \in {} |-> 0]

\* ItemRepository.GetSummaryByCategory: a count for each category that has
\* at least one row.
GetSummaryByCategory ==
  LET cats == {store[i].Category : i \in DOMAIN store}
  IN [c \in cats |-> Cardinality({i \in DOMAIN store : store[i].Category = c})]

\* ---------------------------------------------------------------- inputs
\* UpdateItemInput: three optional fields; hasX is FALSE for a nil pointer.
UpdIn(hn, n, hb, b, hp, p) ==
  [hasName |-> hn, Name |-> n, hasBrand |-> hb, Brand |-> b,
   hasPrice |-> hp, PurchasePrice |-> p]

NoInput == UpdIn(FALSE, <<>>, FALSE, <<>>, FALSE, 0)

UpdateInputs ==
  {NoInput}
  \cup {UpdIn(TRUE, s, FALSE, <<>>, FALSE, 0) : s \in {SBlank, SPadMax, SOver}}
  \cup {UpdIn(FALSE, <<>>, TRUE, s, FALSE, 0) : s \in {SEmpty, SPadB, SWide}}
  \cup {UpdIn(FALSE, <<>>, FALSE, <<>>, TRUE, p) : p \in {-1, 0, 1}}
  \cup {UpdIn(TRUE, SPadMax, TRUE, SBlank, FALSE, 0),
        UpdIn(TRUE, SPadMax, FALSE, <<>>, TRUE, -1),
        UpdIn(TRUE, SOver, TRUE, SPadB, TRUE, 0),
        UpdIn(TRUE, SPadMax, TRUE, SPadB, TRUE, 0)}

Ids == (-1)..(MaxId + 1)

\* CreateItemInput
CreateIn(n, c, b, p, d) ==
  [Name |-> n, Category |-> c, Brand |-> b, PurchasePrice |-> p, PurchaseDate |-> d]

GoodDate == Date(2023, 1, 15)

\* Valid inputs, and inputs with exactly one bad field.
CreateInputs ==
  {CreateIn(SPadA, "watch", SPadA, 1, GoodDate),
   CreateIn(SPadA, "other", SPadA, 0, Date(2024, 2, 29))}
  \cup {CreateIn(n, "watch", SPadA, 1, GoodDate) : n \in {SEmpty, SBlank, SOver, SWide}}
  \cup {CreateIn(SPadA, "watch", b, 1, GoodDate) : b \in {SEmpty, SBlank, SOver, SWide}}
  \cup {CreateIn(SPadA, "car", SPadA, 1, GoodDate)}
  \cup {CreateIn(SPadA, "watch", SPadA, -1, GoodDate)}
  \cup {CreateIn(SPadA, "watch", SPadA, 1, d) :
          d \in {GarbageDate, Date(2023, 2, 30), Date(2023, 13, 1)}}

NoCreateInput == CreateIn(<<>>, "", <<>>, 0, GarbageDate)

\* CategorySummary
NilSummary == [Categories |-> EmptyCounts, Total |-> 0]

\* The record of a returned call.  calls lists the storage calls the handler
\* made, in order, each with the answer it got.
Returned(op, id, uin, cin, err, ret, found, calls) ==
  [op |-> op, id |-> id, uin |-> uin, cin |-> cin, err |-> err, ret |-> ret,
   found |-> found, calls |-> calls, counts |-> EmptyCounts, summary |-> NilSummary]

NoCall == Returned("none", 0, NoInput, NoCreateInput, ErrNil, NilItem, NilItem, <<>>)

\* Calls are made one at a time: a call starts when the caller has taken
\* the result of the previous one.
Ready == last = NoCall

\* A concurrent caller's view of its own UpdateItem call: arguments, the
\* item FindByID gave it, the answer of its storage Update ("none": not
\* called), and what the call returned.
NoLocal ==
  [id |-> 0, uin |-> NoInput, item |-> NilItem, wrote |-> "none",
   err |-> ErrNil, ret |-> NilItem]

NoWrite == [by |-> 0, item |-> NilItem]

Callers == {1, 2}

Init ==
  /\ store = [i \in {} |-> NilItem]
  /\ nextId = 1
  /\ now = 0
  /\ last = NoCall
  /\ pc = [c \in Callers |-> "idle"]
  /\ local = [c \in Callers |-> NoLocal]
  /\ written = NoWrite

\* The clock advances between calls; two readings may be equal.
Tick ==
  /\ Ready
  /\ now < MaxTime
  /\ now' = now + 1
  /\ UNCHANGED <<store, nextId, last, pc, local, written>>

\* The caller takes the result of the call that returned.
Return ==
  /\ ~Ready
  /\ last' = NoCall
  /\ UNCHANGED <<store, nextId, now, pc, local, written>>

\* ---------------------------------------------------------------- handlers
\* usecase.CreateItem.  Storage Create is called while ids are left
\* (nextId <= MaxId).
CreateItem(in) ==
  LET r == NewItem(in.Name, in.Category, in.Brand, in.PurchasePrice, in.PurchaseDate, now)
      created == [r.item EXCEPT !.ID = nextId]
  IN /\ Ready
     /\ IF r.err # ErrNil
        THEN /\ last' = Returned("CreateItem", 0, NoInput, in, ErrInvalidInput,
                                 NilItem, NilItem, <<>>)
             /\ UNCHANGED <<store, nextId>>
        ELSE \E w \in StorageAnswers :
               IF w = "error"
               THEN /\ nextId <= MaxId
                    /\ last' = Returned("CreateItem", 0, NoInput, in, ErrInternal,
                                        NilItem, NilItem, << <<"Create", "error">> >>)
                    /\ UNCHANGED <<store, nextId>>
               ELSE /\ nextId <= MaxId
                    /\ store' = RepoCreate(r.item)
                    /\ nextId' = nextId + 1
                    /\ last' = Returned("CreateItem", 0, NoInput, in, ErrNil,
                                        created, NilItem, << <<"Create", "ok">> >>)
     /\ UNCHANGED <<now, pc, local, written>>

\* Mutant: a storage "not found" is not told apart from other failures.
FindErr_NoTranslate(res) == IF res = "ok" THEN ErrNil ELSE ErrInternal

\* if domainErrors.IsNotFoundError(err) { ErrItemNotFound } else wrapped error
FindErr(res) ==
  CASE res = "ok" -> ErrNil
    [] res = "notfound" -> ErrItemNotFound
    [] OTHER -> ErrInternal

\* usecase.GetItemByID
GetItemByID(id) ==
  /\ Ready
  /\ IF id <= 0
     THEN last' = Returned("GetItemByID", id, NoInput, NoCreateInput, ErrInvalidInput,
                           NilItem, NilItem, <<>>)
     ELSE \E f \in FindByID(id) :
            last' = Returned("GetItemByID", id, NoInput, NoCreateInput, FindErr(f.res),
                             f.item, f.item, << <<"FindByID", f.res>> >>)
  /\ UNCHANGED <<store, nextId, now, pc, local, written>>

\* usecase.DeleteItem
DeleteItem(id) ==
  /\ Ready
  /\ IF id <= 0
     THEN /\ last' = Returned("DeleteItem", id, NoInput, NoCreateInput, ErrInvalidInput,
                              NilItem, NilItem, <<>>)
          /\ UNCHANGED store
     ELSE \E f \in FindByID(id) :
            IF f.res # "ok"
            THEN /\ last' = Returned("DeleteItem", id, NoInput, NoCreateInput,
                                     FindErr(f.res), NilItem, NilItem,
                                     << <<"FindByID", f.res>> >>)
                 /\ UNCHANGED store
            ELSE \E w \in StorageAnswers :
                   /\ last' = Returned("DeleteItem", id, NoInput, NoCreateInput,
                                       IF w = "error" THEN ErrInternal ELSE ErrNil,
                                       NilItem, f.item,
                                       << <<"FindByID", "ok">>, <<"Delete", w>> >>)
                   /\ store' = IF w = "error" THEN store ELSE RepoDelete(id)
  /\ UNCHANGED <<nextId, now, pc, local, written>>

RECURSIVE SumCounts(_)
\* total := 0; for _, count := range categoryCounts { total += count }
SumCounts(counts) ==
  IF DOMAIN counts = {} THEN 0
  ELSE LET c == CHOOSE x \in DOMAIN counts : TRUE
       IN counts[c] + SumCounts([k \in DOMAIN counts \ {c} |-> counts[k]])

\* Mutant: only the categories storage reported are copied.
FillCategories_ReportedOnly(counts) == counts

\* Mutant: both branches of the copy insert 0.
FillCategories_AllZero(counts) == [c \in ValidCategorySet |-> 0]

\* The mapping built over entity.GetValidCategories(): storage's count where
\* storage reported the category, 0 otherwise.
FillCategories(counts) ==
  [c \in ValidCategorySet |-> IF c \in DOMAIN counts THEN counts[c] ELSE 0]

\* The CategorySummary built from storage's counts.
BuildSummary(counts) ==
  [Categories |-> FillCategories(counts), Total |-> SumCounts(counts)]

\* usecase.GetCategorySummary
GetCategorySummary ==
  /\ Ready
  /\ \E w \in StorageAnswers :
       last' = IF w = "error"
               THEN Returned("GetCategorySummary", 0, NoInput, NoCreateInput, ErrInternal,
                             NilItem, NilItem, << <<"GetSummaryByCategory", w>> >>)
               ELSE [Returned("GetCategorySummary", 0, NoInput, NoCreateInput, ErrNil,
                              NilItem, NilItem, << <<"GetSummaryByCategory", w>> >>)
                       EXCEPT !.counts = GetSummaryByCategory,
                              !.summary = BuildSummary(GetSummaryByCategory)]
  /\ UNCHANGED <<store, nextId, now, pc, local, written>>

\* Mutant: the check that at least one field is given is missing.
ShapeOK_IdOnly(id, in) == ~(id <= 0)

\* The request-shape checks of UpdateItem: id <= 0, and no field given.
ShapeOK(id, in) ==
  /\ ~(id <= 0)
  /\ ~(~in.hasName /\ ~in.hasBrand /\ ~in.hasPrice)

\* Mutant: the length check is missing.
CheckText_NoLimit(s) ==
  LET t == TrimSpace(s)
  IN IF t = <<>> THEN [err |-> ErrInvalidInput, v |-> t]
     ELSE [err |-> ErrNil, v |-> t]

\* name := strings.TrimSpace(*input.Name); empty or longer than 100 is refused
\* (the same for brand).
CheckText(s) ==
  LET t == TrimSpace(s)
  IN IF t = <<>> THEN [err |-> ErrInvalidInput, v |-> t]
     ELSE IF GoLen(t) > MaxLen THEN [err |-> ErrInvalidInput, v |-> t]
     ELSE [err |-> ErrNil, v |-> t]

\* if *input.PurchasePrice < 0 { return ErrInvalidInput }
CheckPrice(p) == IF p < 0 THEN ErrInvalidInput ELSE ErrNil

\* The first validation failure among the present fields, in the order
\* name, brand, purchase_price; ErrNil when every present field is valid.
FirstError(in) ==
  IF in.hasName /\ CheckText(in.Name).err # ErrNil THEN CheckText(in.Name).err
  ELSE IF in.hasBrand /\ CheckText(in.Brand).err # ErrNil THEN CheckText(in.Brand).err
  ELSE IF in.hasPrice THEN CheckPrice(in.PurchasePrice)
  ELSE ErrNil

\* The fetched copy with each present field assigned: item.Name = name,
\* item.Brand = brand, item.PurchasePrice = *input.PurchasePrice.
Assigned(item, in) ==
  [item EXCEPT
     !.Name = IF in.hasName THEN CheckText(in.Name).v ELSE @,
     !.Brand = IF in.hasBrand THEN CheckText(in.Brand).v ELSE @,
     !.PurchasePrice = IF in.hasPrice THEN in.PurchasePrice ELSE @]

\* Mutant: the update also stamps CreatedAt.
ApplyUpdate_StampsCreatedAt(item, in, t) ==
  IF FirstError(in) # ErrNil THEN [err |-> FirstError(in), item |-> NilItem]
  ELSE [err |-> ErrNil,
        item |-> [Assigned(item, in) EXCEPT !.UpdatedAt = t, !.CreatedAt = t]]

\* Mutant: an absent field is written as its zero value (replace, not patch).
ApplyUpdate_Replace(item, in, t) ==
  IF FirstError(in) # ErrNil THEN [err |-> FirstError(in), item |-> NilItem]
  ELSE [err |-> ErrNil,
        item |-> [item EXCEPT
                    !.Name = IF in.hasName THEN CheckText(in.Name).v ELSE @,
                    !.Brand = IF in.hasBrand THEN CheckText(in.Brand).v ELSE @,
                    !.PurchasePrice = in.PurchasePrice,
                    !.UpdatedAt = t]]

\* Mutant: UpdatedAt is not refreshed.
ApplyUpdate_NoRefresh(item, in, t) ==
  IF FirstError(in) # ErrNil THEN [err |-> FirstError(in), item |-> NilItem]
  ELSE [err |-> ErrNil, item |-> Assigned(item, in)]

\* Steps 2 to 4 of UpdateItem on the fetched copy: each present field is
\* validated and assigned in turn, the first failure returns; then
\* item.UpdatedAt = time.Now().
ApplyUpdate(item, in, t) ==
  IF FirstError(in) # ErrNil THEN [err |-> FirstError(in), item |-> NilItem]
  ELSE [err |-> ErrNil, item |-> [Assigned(item, in) EXCEPT !.UpdatedAt = t]]

\* Mutant: a field assigned before a later field fails validation is
\* written to storage all the same.
UpdateSteps_PartialCommit(item, in, t, w) ==
  LET u == ApplyUpdate(item, in, t)
      nameOK == in.hasName /\ CheckText(in.Name).err = ErrNil
  IN IF u.err # ErrNil
     THEN [err |-> u.err, ret |-> NilItem, persist |-> nameOK,
           item |-> IF nameOK THEN [item EXCEPT !.Name = CheckText(in.Name).v]
                    ELSE NilItem]
     ELSE IF w = "error"
     THEN [err |-> ErrInternal, ret |-> NilItem, persist |-> TRUE, item |-> u.item]
     ELSE [err |-> ErrNil, ret |-> u.item, persist |-> TRUE, item |-> u.item]

\* Mutant: the write is refused when the stored row changed since the fetch.
UpdateSteps_VersionCheck(item, in, t, w) ==
  LET u == ApplyUpdate(item, in, t)
  IN IF u.err # ErrNil
     THEN [err |-> u.err, ret |-> NilItem, persist |-> FALSE, item |-> NilItem]
     ELSE IF store[item.ID] # item
     THEN [err |-> ErrInternal, ret |-> NilItem, persist |-> FALSE, item |-> NilItem]
     ELSE IF w = "error"
     THEN [err |-> ErrInternal, ret |-> NilItem, persist |-> TRUE, item |-> u.item]
     ELSE [err |-> ErrNil, ret |-> u.item, persist |-> TRUE, item |-> u.item]

\* What UpdateItem does once FindByID has answered with the item: validate
\* and assign, then call storage Update (answer w) and return.  persist
\* tells whether storage Update was called, item is its argument.
UpdateSteps(item, in, t, w) ==
  LET u == ApplyUpdate(item, in, t)
  IN IF u.err # ErrNil
     THEN [err |-> u.err, ret |-> NilItem, persist |-> FALSE, item |-> NilItem]
     ELSE IF w = "error"
     THEN [err |-> ErrInternal, ret |-> NilItem, persist |-> TRUE, item |-> u.item]
     ELSE [err |-> ErrNil, ret |-> u.item, persist |-> TRUE, item |-> u.item]

\* usecase.UpdateItem, run from call to return without interleaving.
UpdateItem(id, in) ==
  /\ Ready
  /\ IF ~ShapeOK(id, in)
     THEN /\ last' = Returned("UpdateItem", id, in, NoCreateInput, ErrInvalidInput,
                              NilItem, NilItem, <<>>)
          /\ UNCHANGED store
     ELSE \E f \in FindByID(id) :
            IF f.res # "ok"
            THEN /\ last' = Returned("UpdateItem", id, in, NoCreateInput, FindErr(f.res),
                                     NilItem, NilItem, << <<"FindByID", f.res>> >>)
                 /\ UNCHANGED store
            ELSE \E w \in StorageAnswers :
                   LET r == UpdateSteps(f.item, in, now, w)
                   IN /\ last' = Returned("UpdateItem", id, in, NoCreateInput, r.err, r.ret,
                                          f.item,
                                          IF r.persist
                                          THEN << <<"FindByID", "ok">>, <<"Update", w>> >>
                                          ELSE << <<"FindByID", "ok">> >>)
                      /\ store' = IF r.persist /\ w = "ok" THEN RepoUpdate(r.item) ELSE store
  /\ UNCHANGED <<nextId, now, pc, local, written>>

Next ==
  \/ Tick
  \/ Return
  \/ \E in \in CreateInputs : CreateItem(in)
  \/ \E id \in Ids : GetItemByID(id)
  \/ \E id \in Ids : DeleteItem(id)
  \/ GetCategorySummary
  \/ \E id \in Ids, in \in UpdateInputs : UpdateItem(id, in)

Spec == Init /\ [][Next]_vars

\* ------------------------------------------------- interleaved UpdateItem
\* Two callers run UpdateItem at the same time.  The handler holds no lock,
\* so the calls interleave at its two storage calls: FindByID, then Update.

\* Storage holds one item, created by CreateItem from a valid input.
InitConc ==
  /\ \E in \in CreateInputs :
       LET r == NewItem(in.Name, in.Category, in.Brand, in.PurchasePrice,
                        in.PurchaseDate, 0)
       IN /\ r.err = ErrNil
          /\ store = [i \in {1} |-> [r.item EXCEPT !.ID = 1]]
  /\ nextId = 2
  /\ now = 0
  /\ last = NoCall
  /\ pc = [c \in Callers |-> "idle"]
  /\ local = [c \in Callers |-> NoLocal]
  /\ written = NoWrite

\* UpdateItem from its entry to the return of FindByID.
UpdateFetch(c, id, in) ==
  /\ pc[c] = "idle"
  /\ IF ~ShapeOK(id, in)
     THEN /\ local' = [local EXCEPT ![c] = [NoLocal EXCEPT !.id = id, !.uin = in,
                                                         !.err = ErrInvalidInput]]
          /\ pc' = [pc EXCEPT ![c] = "done"]
     ELSE \E f \in FindByID(id) :
            /\ local' = [local EXCEPT ![c] = [NoLocal EXCEPT !.id = id, !.uin = in,
                                                           !.item = f.item,
                                                           !.err = FindErr(f.res)]]
            /\ pc' = [pc EXCEPT ![c] = IF f.res = "ok" THEN "fetched" ELSE "done"]
  /\ UNCHANGED <<store, nextId, now, last, written>>

\* UpdateItem from the return of FindByID to its own return: validation,
\* assignment, time.Now(), storage Update.
UpdatePersist(c) ==
  /\ pc[c] = "fetched"
  /\ \E w \in StorageAnswers :
       LET r == UpdateSteps(local[c].item, local[c].uin, now, w)
           stored == r.persist /\ w = "ok"
       IN /\ store' = IF stored THEN RepoUpdate(r.item) ELSE store
          /\ written' = IF stored THEN [by |-> c, item |-> r.item] ELSE written
          /\ local' = [local EXCEPT ![c].err = r.err, ![c].ret = r.ret,
                                    ![c].wrote = IF r.persist THEN w ELSE "none"]
  /\ pc' = [pc EXCEPT ![c] = "done"]
  /\ UNCHANGED <<nextId, now, last>>

NextConc ==
  \/ Tick
  \/ \E c \in Callers, id \in Ids, in \in UpdateInputs : UpdateFetch(c, id, in)
  \/ \E c \in Callers : UpdatePersist(c)

SpecConc == InitConc /\ [][NextConc]_vars
\* ---------------------------------------------------------------- claims
UpdateOK(l) == l.op = "UpdateItem" /\ l.err = ErrNil

Called(l, name) == \E k \in DOMAIN l.calls : l.calls[k][1] = name

TimesCalled(l, name) == Cardinality({k \in DOMAIN l.calls : l.calls[k][1] = name})

SameImmutable(a, b) ==
  /\ a.ID = b.ID
  /\ a.Category = b.Category
  /\ a.PurchaseDate = b.PurchaseDate
  /\ a.CreatedAt = b.CreatedAt

\* C1: no call changes the id, category, purchaseDate or createdAt of an item
\* that stays in storage, and the item a successful update returns has the
\* four values the stored item had before the call.
C1_ImmutableKept ==
  [][/\ \A i \in DOMAIN store \cap DOMAIN store' :
          SameImmutable(store[i], store'[i]) /\ store'[i].ID = i
     /\ UpdateOK(last') => SameImmutable(store[last'.id], last'.ret)]_vars

\* A successful update that changed the stored item has returned.
C1_Witness ==
  /\ UpdateOK(last)
  /\ last.ret # last.found
  /\ store[last.id] = last.ret
  /\ last.uin.hasName /\ last.uin.hasBrand /\ last.uin.hasPrice

\* C2: a successful update gives each present field of name, brand and
\* purchasePrice the new value (name and brand trimmed) and leaves each
\* absent one, in the returned and in the persisted item, at the value
\* storage held before the call; no other row changes.
C2_PartialUpdate ==
  [][UpdateOK(last') =>
       LET old == store[last'.id]
           in == last'.uin
       IN /\ last'.ret.Name = IF in.hasName THEN TrimSpace(in.Name) ELSE old.Name
          /\ last'.ret.Brand = IF in.hasBrand THEN TrimSpace(in.Brand) ELSE old.Brand
          /\ last'.ret.PurchasePrice =
               IF in.hasPrice THEN in.PurchasePrice ELSE old.PurchasePrice
          /\ SameImmutable(old, last'.ret)
          /\ DOMAIN store' = DOMAIN store
          /\ store'[last'.id] = last'.ret
          /\ \A i \in DOMAIN store \ {last'.id} : store'[i] = store[i]]_vars

\* A name-only update changed the name and left brand and price alone.
C2_Witness ==
  /\ UpdateOK(last)
  /\ last.uin.hasName /\ ~last.uin.hasBrand /\ ~last.uin.hasPrice
  /\ last.ret.Name = SMax
  /\ last.found.Name # SMax
  /\ last.ret.Brand = last.found.Brand
  /\ last.ret.PurchasePrice = last.found.PurchasePrice
  /\ store[last.id] = last.ret

\* C3 as stated: whenever update returns an error, storage Update was not
\* called and storage is what it was; when it succeeds, one storage Update
\* persisted the changes.
C3_Original ==
  [][last'.op = "UpdateItem" =>
       IF last'.err # ErrNil
       THEN ~Called(last', "Update") /\ store' = store
       ELSE TimesCalled(last', "Update") = 1 /\ store'[last'.id] = last'.ret]_vars

\* C3, amended: an update that returns InvalidInput or ItemNotFound has not
\* called storage Update and leaves storage as it was; the only error
\* returned after storage Update was called is the internal error of that
\* call failing, with storage as it was; a successful update has called
\* storage Update exactly once, as its last storage call, with the returned
\* item.
C3_NoPartialCommit ==
  [][last'.op = "UpdateItem" =>
       /\ last'.err \in {ErrInvalidInput, ErrItemNotFound} =>
            ~Called(last', "Update") /\ store' = store
       /\ last'.err = ErrInternal =>
            /\ store' = store
            /\ Called(last', "Update") =>
                 last'.calls = << <<"FindByID", "ok">>, <<"Update", "error">> >>
       /\ last'.err = ErrNil =>
            /\ last'.calls = << <<"FindByID", "ok">>, <<"Update", "ok">> >>
            /\ store'[last'.id] = last'.ret]_vars

\* An update with a valid name and an empty brand was refused after the
\* fetch, and the stored item is the fetched one.
C3_Witness ==
  /\ last.op = "UpdateItem"
  /\ last.err = ErrInvalidInput
  /\ last.uin.hasName /\ TrimSpace(last.uin.Name) = SMax
  /\ last.uin.hasBrand /\ TrimSpace(last.uin.Brand) = <<>>
  /\ last.calls = << <<"FindByID", "ok">> >>
  /\ store[last.id] = last.found
  /\ last.found.Name # SMax

TextValid(s) == s # <<>> /\ TrimSpace(s) = s /\ RuneCount(s) <= MaxLen

ItemValid(it) ==
  /\ TextValid(it.Name)
  /\ TextValid(it.Brand)
  /\ it.Category \in ValidCategorySet
  /\ it.PurchasePrice >= 0
  /\ IsValidDate(it.PurchaseDate)

TextViolates(s) == TrimSpace(s) = <<>> \/ RuneCount(TrimSpace(s)) > MaxLen

CreateViolates(in) ==
  \/ TextViolates(in.Name)
  \/ TextViolates(in.Brand)
  \/ in.Category \notin ValidCategorySet
  \/ in.PurchasePrice < 0
  \/ ~IsValidDate(in.PurchaseDate)

StoreValid == \A i \in DOMAIN store : ItemValid(store[i])

\* C4: every stored item satisfies the field constraints in every reachable
\* state, and a create whose input violates one of them returns InvalidInput
\* without calling storage.
C4_ConstraintsHold ==
  /\ []StoreValid
  /\ [][last'.op = "CreateItem" /\ CreateViolates(last'.cin) =>
          /\ last'.err = ErrInvalidInput
          /\ last'.calls = <<>>
          /\ store' = store]_vars

\* An update has stored a name of exactly the longest allowed length and a
\* brand that needed trimming.
C4_Witness ==
  /\ UpdateOK(last)
  /\ RuneCount(store[last.id].Name) = MaxLen
  /\ last.uin.hasBrand /\ last.uin.Brand # store[last.id].Brand
  /\ last.uin.hasPrice /\ store[last.id].PurchasePrice = 0

\* C5: GetItemByID, DeleteItem and UpdateItem with id <= 0, and UpdateItem
\* with no field present for any id, return InvalidInput without a storage
\* call.
C5_RejectedBeforeStorage ==
  /\ last.op \in {"GetItemByID", "DeleteItem", "UpdateItem"} /\ last.id <= 0 =>
       last.err = ErrInvalidInput /\ last.calls = <<>>
  /\ last.op = "UpdateItem"
       /\ ~last.uin.hasName /\ ~last.uin.hasBrand /\ ~last.uin.hasPrice =>
       last.err = ErrInvalidInput /\ last.calls = <<>>

\* An update of a stored item with no field present was refused.
C5_Witness ==
  /\ last.op = "UpdateItem"
  /\ last.id \in DOMAIN store
  /\ last.uin = NoInput
  /\ last.err = ErrInvalidInput
  /\ last.calls = <<>>

Missing(l) ==
  /\ l.op \in {"GetItemByID", "DeleteItem", "UpdateItem"}
  /\ l.id > 0
  /\ l.id \notin DOMAIN store
  /\ l.op = "UpdateItem" => l.uin.hasName \/ l.uin.hasBrand \/ l.uin.hasPrice

\* C6 as stated: for an id > 0 with no stored item, GetItemByID, DeleteItem
\* and UpdateItem with a field present return ItemNotFound, storage Delete
\* and Update are not called, and storage is unchanged.
C6_Original ==
  [][Missing(last') =>
       /\ last'.err = ErrItemNotFound
       /\ ~Called(last', "Delete") /\ ~Called(last', "Update")
       /\ store' = store]_vars

\* C6, amended: for such an id the handler makes the one storage call
\* FindByID; it returns ItemNotFound when that call answers "not found" and
\* the internal error when that call itself fails; storage Delete and Update
\* are not called and storage is unchanged.
C6_NotFound ==
  [][Missing(last') =>
       /\ \E a \in {"notfound", "error"} :
            /\ last'.calls = << <<"FindByID", a>> >>
            /\ last'.err = IF a = "notfound" THEN ErrItemNotFound ELSE ErrInternal
       /\ store' = store]_vars

\* An update with a field present, of an id that is not stored while another
\* call's id could be, returned ItemNotFound.
C6_Witness ==
  /\ last.op = "UpdateItem"
  /\ last.id > 0 /\ last.id \notin DOMAIN store
  /\ last.uin.hasName
  /\ last.err = ErrItemNotFound
  /\ last.calls = << <<"FindByID", "notfound">> >>

RECURSIVE SumOver(_, _)
SumOver(f, S) ==
  IF S = {} THEN 0
  ELSE LET x == CHOOSE y \in S : TRUE IN f[x] + SumOver(f, S \ {x})

SummaryOK(l) == l.op = "GetCategorySummary" /\ l.err = ErrNil

C9_Original ==
  [][UpdateOK(last') =>
       /\ last'.ret.UpdatedAt > store[last'.id].UpdatedAt
       /\ store'[last'.id].UpdatedAt > store[last'.id].UpdatedAt
       /\ store'[last'.id].CreatedAt = store[last'.id].CreatedAt]_vars

\* C9, amended: a successful update sets updatedAt, in the returned and the
\* persisted item, to the reading of the clock during the call; that is not
\* less than the stored updatedAt before the call, and greater exactly when
\* the clock has advanced past it; createdAt stays the same.
C9_UpdatedAtRefreshed ==
  [][UpdateOK(last') =>
       LET old == store[last'.id]
       IN /\ last'.ret.UpdatedAt = now
          /\ store'[last'.id].UpdatedAt = now
          /\ now >= old.UpdatedAt
          /\ last'.ret.CreatedAt = old.CreatedAt
          /\ store'[last'.id].CreatedAt = old.CreatedAt]_vars

\* A successful update moved updatedAt forward, past createdAt.
C9_Witness ==
  /\ UpdateOK(last)
  /\ last.ret.UpdatedAt > last.found.UpdatedAt
  /\ store[last.id].UpdatedAt > store[last.id].CreatedAt

Persisting(c) ==
  /\ pc[c] = "done"
  /\ ShapeOK(local[c].id, local[c].uin)
  /\ local[c].item # NilItem
  /\ FirstError(local[c].uin) = ErrNil
  /\ local[c].wrote # "error"

\* C10: of two interleaved updates, each one that fetched the item and
\* passed validation succeeds whenever its own storage Update does, whatever
\* the other has written meanwhile, and storage holds the whole item passed
\* to the storage Update that ran last.
C10_LastWriteWins ==
  /\ \A c \in Callers :
       Persisting(c) => /\ local[c].err = ErrNil
                        /\ local[c].wrote = "ok"
                        /\ local[c].ret.ID = local[c].id
  /\ written.by # 0 =>
       /\ store[written.item.ID] = written.item
       /\ local[written.by].ret = written.item

\* Both updates of the same item succeeded, and the name the first one wrote
\* is not in storage: the second wrote the item it had fetched before.
C10_Witness ==
  /\ \A c \in Callers : Persisting(c) /\ local[c].id = 1
  /\ written.by = 2
  /\ local[1].uin.hasName /\ ~local[2].uin.hasName
  /\ local[1].ret.Name # local[1].item.Name
  /\ store[1].Name # local[1].ret.Name
  /\ store[1] = local[2].ret
====
